---- MODULE Spec2Model ----
(***************************************************************************)
(* Clean-up tracker: the Express backend (src/backend/server.js) in front  *)
(* of two Firestore collections, wasteEntries and events.                  *)
(*                                                                         *)
(* Every route handler is an async function: it runs synchronously up to   *)
(* its await on the store, the store then commits or rejects the call, and *)
(* the rest of the handler writes the response.  A request is therefore    *)
(* three steps (handler start, store step, handler finish), and the steps  *)
(* of different requests interleave.                                       *)
(***************************************************************************)
EXTENDS Integers, Sequences, FiniteSets, TLC

(***************************************************************************)
(* JavaScript values.  A field that is missing from a JSON body reads as   *)
(* undefined after destructuring.                                          *)
(***************************************************************************)
Undefined == "<undefined>"
Null == "<null>"

\* the values of the model that JavaScript treats as false in !x and x || y
Falsy(v) == v \in {Undefined, Null, ""}

\* a || b
Or(a, b) == IF Falsy(a) THEN b ELSE a

(***************************************************************************)
(* Bounds of the model.                                                    *)
(***************************************************************************)
\* number of add() calls on wasteEntries the model lets the handlers issue
MaxWaste == 2
\* number of add() calls on events the model lets the handlers issue
MaxEvents == 1

\* HTTP connections that can carry a request each at the same time
Callers == {"c1", "c2"}
\* readings of the server's clock (new Date())
Clock == {0, 1}
\* new Date().toISOString() at each reading of the clock
IsoStrings == <<"2025-01-01T00:00:00.000Z", "2025-01-01T00:00:10.000Z">>
ToISOString(t) == IsoStrings[t + 1]
\* new Date(s) for a string toISOString() made: the time it was made from
DateOf(s) == CHOOSE t \in Clock : ToISOString(t) = s

\* document ids the store can generate for a collection
WasteIds == 1..MaxWaste
EventIds == 1..MaxEvents

\* number of refreshes the model lets the dashboard start
MaxRefresh == 2
RefreshIds == 1..MaxRefresh

(***************************************************************************)
(* Request bodies.                                                         *)
(***************************************************************************)
NoUser == [present |-> FALSE, uid |-> Undefined, email |-> Undefined]
Users ==
  { NoUser,
    [present |-> TRUE, uid |-> Undefined, email |-> "a@x"],
    [present |-> TRUE, uid |-> "", email |-> Undefined],
    [present |-> TRUE, uid |-> "u1", email |-> "a@x"],
    [present |-> TRUE, uid |-> "__proto__", email |-> ""] }
Types == {Undefined, "", "Plastic", "__proto__"}
Volumes == {"5 bags"}
Locations == {"Zapote"}
Titles == {"Beach day"}
Descriptions == {"Bring gloves"}
Dates == {"2025-01-01"}

WasteBodies == [type : Types, volume : Volumes, location : Locations, user : Users]
EventBodies ==
  [title : Titles, description : Descriptions, location : Locations,
   date : Dates, user : Users]
NoBody == [user |-> NoUser]

\* a handler that tests !user where the code tests !user?.uid
UidOfPresence(user) == IF user.present THEN "present" ELSE Undefined

\* user?.uid
UidOf(user) == IF user.present THEN user.uid ELSE Undefined

(***************************************************************************)
(* State.                                                                  *)
(***************************************************************************)
VARIABLES
  wasteEntries,  \* the wasteEntries collection: document id -> document data
  events,        \* the events collection: document id -> document data
  now,           \* the server's clock
  req,           \* per connection: the request in flight and its handler's position
  okWasteBy,     \* history: uid -> number of POST /api/waste calls answered 200 for it
  okEvents,      \* history: number of POST /api/events calls answered 200
  issued,        \* history: per collection, the ids the 200 answers of the POSTs named
  user,          \* App: the signed-in user the pages are rendered for
  wasteForm,     \* SubmitWasteForm: isSubmitting and the fetch it awaits
  eventForm,     \* CreateEventForm: isSubmitting and the addDoc it awaits
  cards,         \* EventCard, per event: isJoining and showModal
  dash           \* DashboardPage: its state and the fetches it awaits

vars == <<wasteEntries, events, now, req, okWasteBy, okEvents, issued,
          user, wasteForm, eventForm, cards, dash>>
hist == <<okWasteBy, okEvents, issued>>
front == <<user, wasteForm, eventForm, cards, dash>>

\* (before is history: the number of wasteEntries documents that were committed
\* when a read request started)
Idle == [pc |-> "idle", op |-> "none", body |-> NoBody, doc |-> <<>>,
         calls |-> 0, result |-> <<>>, res |-> <<>>, before |-> 0]

EmptyCol == <<>>

\* useState(false) of the forms and the cards (App.jsx:415-416, 492, 738)
WasteFormInit == [isSubmitting |-> FALSE, conn |-> "none"]
EventFormInit == [isSubmitting |-> FALSE, pc |-> "idle", doc |-> <<>>]
CardInit == [isJoining |-> FALSE, showModal |-> FALSE]

\* the fetches of the dashboard: each refresh sends one for the entries and one
\* for the summary
Fetches == RefreshIds \X {"entries", "stats"}
NoFetch == [pc |-> "none", res |-> <<>>]

\* DashboardPage before it is mounted: useState([]), useState(null),
\* useState(true) (App.jsx:579-581)
NoStats == [set |-> FALSE, json |-> <<>>]
DashInit ==
  [mounted |-> FALSE, loading |-> TRUE, wasteEntries |-> <<>>, stats |-> NoStats,
   refreshes |-> 0, fetch |-> [f \in Fetches |-> NoFetch]]

\* bags of the history variables
Count(m, k) == IF k \in DOMAIN m THEN m[k] ELSE 0
BagAdd(m, k) == [x \in DOMAIN m \cup {k} |-> Count(m, x) + (IF x = k THEN 1 ELSE 0)]

Init ==
  /\ wasteEntries = EmptyCol
  /\ events = EmptyCol
  /\ now = 0
  /\ req = [c \in Callers |-> Idle]
  /\ okWasteBy = <<>>
  /\ okEvents = 0
  /\ issued = [wasteEntries |-> <<>>, events |-> <<>>]
  /\ user = NoUser
  /\ wasteForm = WasteFormInit
  /\ eventForm = EventFormInit
  /\ cards = [e \in EventIds |-> CardInit]
  /\ dash = DashInit

(***************************************************************************)
(* The document store (Firestore through firebase-admin).  getFirestore()  *)
(* is used with its default settings (server.js:34, no call of             *)
(* db.settings), under which add() refuses a document that holds an        *)
(* undefined field: it throws before anything is sent to the store.        *)
(***************************************************************************)
HasUndefined(doc) == \E f \in DOMAIN doc : doc[f] = Undefined

\* snapshot.docs of a collection read without orderBy: in document-id order
RECURSIVE DocsFrom(_, _)
DocsFrom(col, ids) ==
  IF ids = {} THEN <<>>
  ELSE LET i == CHOOSE x \in ids : \A y \in ids : x <= y
       IN <<[id |-> i, data |-> col[i]]>> \o DocsFrom(col, ids \ {i})

SnapshotDocs(col) == DocsFrom(col, DOMAIN col)

\* the collection a route works on
ColOf(op) == IF op \in {"postWaste", "getWaste", "getStats"} THEN "wasteEntries" ELSE "events"

\* add() calls on a collection that are issued and not yet answered by the store
Adding(op) == {c \in Callers : req[c].pc = "awaitAdd" /\ req[c].op = op}

(***************************************************************************)
(* GET /api/stats: the fold over the documents read (server.js:138-148).   *)
(***************************************************************************)
\* m[k] = (m[k] || 0) + 1 on a plain object m = {} (server.js:138-139).  The
\* name "__proto__" is an accessor inherited from Object.prototype: reading it
\* gives Object.prototype, which is truthy, and writing the string that
\* Object.prototype + 1 makes is ignored, so m gets no such key.  (Of the other
\* inherited names, constructor, toString and so on, none is among the inputs
\* of the model.)
Inc(m, k) ==
  IF k = "__proto__" THEN m
  ELSE IF k \in DOMAIN m THEN [m EXCEPT ![k] = @ + 1] ELSE (k :> 1) @@ m

StatsStep(acc, e) ==
  [totalEntries |-> acc.totalEntries + 1,
   totalsByType |-> Inc(acc.totalsByType, Or(e.type, "Unknown")),
   totalsByUser |-> Inc(acc.totalsByUser, Or(e.submitterId, "unknown"))]

RECURSIVE StatsFold(_, _)
StatsFold(acc, entries) ==
  IF entries = <<>> THEN acc
  ELSE StatsFold(StatsStep(acc, Head(entries)), Tail(entries))

ComputeStats(entries) ==
  StatsFold([totalEntries |-> 0, totalsByType |-> <<>>, totalsByUser |-> <<>>], entries)

\* snapshot.docs.map(d => d.data())
DataOf(docs) == [i \in 1..Len(docs) |-> docs[i].data]

\* snapshot.docs.map(d => ({ id: d.id, ...d.data() })): a field of the data wins
WithId(docs) == [i \in 1..Len(docs) |-> docs[i].data @@ [id |-> docs[i].id]]

(***************************************************************************)
(* Responses.                                                              *)
(***************************************************************************)
Response(status, json) == [status |-> status, json |-> json]

\* the catch block of every handler: res.status(500).json({ error: err.message })
ServerError(message) == Response(500, [error |-> message])

UndefinedMessage == "Cannot use undefined as a Firestore value"
UnavailableMessage == "store unavailable"

(***************************************************************************)
(* POST /api/waste                                                         *)
(***************************************************************************)
\* a handler that stores the location in the volume field
WasteDocSwapped(b) ==
  [type |-> b.type,
   volume |-> b.location,
   location |-> b.location,
   submitterId |-> b.user.uid,
   submitterEmail |-> Or(b.user.email, Null),
   createdAt |-> ToISOString(now)]

\* a handler that stores user.email as it came
WasteDocEmailAsGiven(b) ==
  [type |-> b.type,
   volume |-> b.volume,
   location |-> b.location,
   submitterId |-> b.user.uid,
   submitterEmail |-> b.user.email,
   createdAt |-> ToISOString(now)]

WasteDoc(b) ==
  [type |-> b.type,
   volume |-> b.volume,
   location |-> b.location,
   submitterId |-> b.user.uid,
   submitterEmail |-> Or(b.user.email, Null),
   createdAt |-> ToISOString(now)]

PostWasteStart(c, b) ==
  /\ req[c].pc = "idle"
  /\ IF Falsy(UidOf(b.user))
       THEN req' = [req EXCEPT ![c] =
              [Idle EXCEPT !.pc = "done", !.op = "postWaste", !.body = b,
                           !.res = Response(401, [error |-> "Unauthorized"])]]
       ELSE IF HasUndefined(WasteDoc(b))
         THEN req' = [req EXCEPT ![c] =
                [Idle EXCEPT !.pc = "done", !.op = "postWaste", !.body = b,
                             !.doc = WasteDoc(b), !.calls = 1,
                             !.res = ServerError(UndefinedMessage)]]
         ELSE /\ Cardinality(DOMAIN wasteEntries) + Cardinality(Adding("postWaste")) < MaxWaste
              /\ req' = [req EXCEPT ![c] =
                   [Idle EXCEPT !.pc = "awaitAdd", !.op = "postWaste", !.body = b,
                                !.doc = WasteDoc(b), !.calls = 1]]
  /\ UNCHANGED <<wasteEntries, events, now, hist>>

\* a handler that answers 200 whatever add() did
PostWasteResponseAlways200(q) ==
  Response(200, [message |-> "Waste entry added", id |-> q.result])

\* a handler that names the entry after its submitter
PostWasteResponseUidAsId(q) ==
  IF q.pc = "resolved"
    THEN Response(200, [message |-> "Waste entry added", id |-> q.body.user.uid])
    ELSE ServerError(q.result)

\* what the handler answers once add() has settled (server.js:65-68)
PostWasteResponse(q) ==
  IF q.pc = "resolved"
    THEN Response(200, [message |-> "Waste entry added", id |-> q.result])
    ELSE ServerError(q.result)

PostWasteFinish(c) ==
  /\ req[c].op = "postWaste"
  /\ req[c].pc \in {"resolved", "rejected"}
  /\ req' = [req EXCEPT ![c].pc = "done", ![c].res = PostWasteResponse(req[c])]
  /\ okWasteBy' = IF PostWasteResponse(req[c]).status = 200
                    THEN BagAdd(okWasteBy, req[c].body.user.uid)
                    ELSE okWasteBy
  /\ issued' = IF PostWasteResponse(req[c]).status = 200
                 THEN [issued EXCEPT !.wasteEntries = BagAdd(@, PostWasteResponse(req[c]).json.id)]
                 ELSE issued
  /\ UNCHANGED <<wasteEntries, events, now, okEvents>>

(***************************************************************************)
(* GET /api/waste                                                          *)
(***************************************************************************)
GetStart(c, op) ==
  /\ req[c].pc = "idle"
  /\ req' = [req EXCEPT ![c] = [Idle EXCEPT !.pc = "awaitGet", !.op = op, !.calls = 1,
                                             !.before = Cardinality(DOMAIN wasteEntries)]]
  /\ UNCHANGED <<wasteEntries, events, now, hist>>

GetWasteStart(c) == GetStart(c, "getWaste")

\* a handler that removes the entries it has listed
GetWasteFinishClearing(c) ==
  /\ req[c].op = "getWaste"
  /\ req[c].pc \in {"resolved", "rejected"}
  /\ req' = [req EXCEPT ![c].pc = "done",
                        ![c].res =
                          IF req[c].pc = "resolved"
                            THEN Response(200, WithId(req[c].result))
                            ELSE ServerError(req[c].result)]
  /\ wasteEntries' = EmptyCol
  /\ UNCHANGED <<events, now, hist>>

GetWasteFinish(c) ==
  /\ req[c].op = "getWaste"
  /\ req[c].pc \in {"resolved", "rejected"}
  /\ req' = [req EXCEPT ![c].pc = "done",
                        ![c].res =
                          IF req[c].pc = "resolved"
                            THEN Response(200, WithId(req[c].result))
                            ELSE ServerError(req[c].result)]
  /\ UNCHANGED <<wasteEntries, events, now, hist>>

(***************************************************************************)
(* POST /api/events                                                        *)
(***************************************************************************)
EventDoc(b) ==
  [title |-> b.title,
   description |-> b.description,
   location |-> b.location,
   date |-> b.date,
   creatorId |-> b.user.uid,
   creatorEmail |-> Or(b.user.email, Null),
   createdAt |-> ToISOString(now)]

PostEventsStart(c, b) ==
  /\ req[c].pc = "idle"
  /\ IF Falsy(UidOf(b.user))
       THEN req' = [req EXCEPT ![c] =
              [Idle EXCEPT !.pc = "done", !.op = "postEvents", !.body = b,
                           !.res = Response(401, [error |-> "Unauthorized"])]]
       ELSE IF HasUndefined(EventDoc(b))
         THEN req' = [req EXCEPT ![c] =
                [Idle EXCEPT !.pc = "done", !.op = "postEvents", !.body = b,
                             !.doc = EventDoc(b), !.calls = 1,
                             !.res = ServerError(UndefinedMessage)]]
         ELSE /\ Cardinality(DOMAIN events) + Cardinality(Adding("postEvents")) < MaxEvents
              /\ req' = [req EXCEPT ![c] =
                   [Idle EXCEPT !.pc = "awaitAdd", !.op = "postEvents", !.body = b,
                                !.doc = EventDoc(b), !.calls = 1]]
  /\ UNCHANGED <<wasteEntries, events, now, hist>>

\* what the handler answers once add() has settled (server.js:106-109)
PostEventsResponse(q) ==
  IF q.pc = "resolved"
    THEN Response(200, [message |-> "Event created", id |-> q.result])
    ELSE ServerError(q.result)

PostEventsFinish(c) ==
  /\ req[c].op = "postEvents"
  /\ req[c].pc \in {"resolved", "rejected"}
  /\ req' = [req EXCEPT ![c].pc = "done", ![c].res = PostEventsResponse(req[c])]
  /\ okEvents' = IF PostEventsResponse(req[c]).status = 200 THEN okEvents + 1 ELSE okEvents
  /\ issued' = IF PostEventsResponse(req[c]).status = 200
                 THEN [issued EXCEPT !.events = BagAdd(@, PostEventsResponse(req[c]).json.id)]
                 ELSE issued
  /\ UNCHANGED <<wasteEntries, events, now, okWasteBy>>

(***************************************************************************)
(* GET /api/events                                                         *)
(***************************************************************************)
GetEventsStart(c) == GetStart(c, "getEvents")

GetEventsFinish(c) ==
  /\ req[c].op = "getEvents"
  /\ req[c].pc \in {"resolved", "rejected"}
  /\ req' = [req EXCEPT ![c].pc = "done",
                        ![c].res =
                          IF req[c].pc = "resolved"
                            THEN Response(200, WithId(req[c].result))
                            ELSE ServerError(req[c].result)]
  /\ UNCHANGED <<wasteEntries, events, now, hist>>

(***************************************************************************)
(* GET /api/stats                                                          *)
(***************************************************************************)
GetStatsStart(c) == GetStart(c, "getStats")

\* a handler that calls get() once more when it fails
GetStatsFinishRetry(c) ==
  /\ req[c].op = "getStats"
  /\ req[c].pc \in {"resolved", "rejected"}
  /\ req' = IF req[c].pc = "rejected" /\ req[c].calls < 2
              THEN [req EXCEPT ![c].pc = "awaitGet", ![c].calls = @ + 1]
              ELSE [req EXCEPT ![c].pc = "done",
                               ![c].res =
                                 IF req[c].pc = "resolved"
                                   THEN Response(200, ComputeStats(DataOf(req[c].result)))
                                   ELSE ServerError(req[c].result)]
  /\ UNCHANGED <<wasteEntries, events, now, hist>>

GetStatsFinish(c) ==
  /\ req[c].op = "getStats"
  /\ req[c].pc \in {"resolved", "rejected"}
  /\ req' = [req EXCEPT ![c].pc = "done",
                        ![c].res =
                          IF req[c].pc = "resolved"
                            THEN Response(200, ComputeStats(DataOf(req[c].result)))
                            ELSE ServerError(req[c].result)]
  /\ UNCHANGED <<wasteEntries, events, now, hist>>

(***************************************************************************)
(* GET /                                                                   *)
(***************************************************************************)
GetRoot(c) ==
  /\ req[c].pc = "idle"
  /\ req' = [req EXCEPT ![c] =
       [Idle EXCEPT !.pc = "done", !.op = "getRoot",
                    !.res = Response(200, [status |-> "ok"])]]
  /\ UNCHANGED <<wasteEntries, events, now, hist>>

(***************************************************************************)
(* The store's side of add() and get(), and the rest of the environment.   *)
(***************************************************************************)
\* a write under one id per submitter (doc(user.uid).set(...)): the second
\* entry of a user replaces the first
StoreAddKeyedByUser(c) ==
  /\ req[c].pc = "awaitAdd"
  /\ IF ColOf(req[c].op) = "wasteEntries"
       THEN LET id == IF req[c].doc.submitterId = "u1" THEN 1 ELSE 2
            IN /\ wasteEntries' = (id :> req[c].doc) @@ wasteEntries
               /\ req' = [req EXCEPT ![c].pc = "resolved", ![c].result = id]
               /\ UNCHANGED events
       ELSE \E id \in EventIds \ DOMAIN events :
              /\ events' = (id :> req[c].doc) @@ events
              /\ req' = [req EXCEPT ![c].pc = "resolved", ![c].result = id]
              /\ UNCHANGED wasteEntries
  /\ UNCHANGED <<now, hist>>

\* a write under an id that the collection may hold already (doc(id).set(...))
StoreAddOverwrite(c) ==
  /\ req[c].pc = "awaitAdd"
  /\ IF ColOf(req[c].op) = "wasteEntries"
       THEN \E id \in WasteIds :
              /\ wasteEntries' = (id :> req[c].doc) @@ wasteEntries
              /\ req' = [req EXCEPT ![c].pc = "resolved", ![c].result = id]
              /\ UNCHANGED events
       ELSE \E id \in EventIds :
              /\ events' = (id :> req[c].doc) @@ events
              /\ req' = [req EXCEPT ![c].pc = "resolved", ![c].result = id]
              /\ UNCHANGED wasteEntries
  /\ UNCHANGED <<now, hist>>

\* add() commits: one new document under an id the collection does not hold
StoreAdd(c) ==
  /\ req[c].pc = "awaitAdd"
  /\ IF ColOf(req[c].op) = "wasteEntries"
       THEN \E id \in WasteIds \ DOMAIN wasteEntries :
              /\ wasteEntries' = (id :> req[c].doc) @@ wasteEntries
              /\ req' = [req EXCEPT ![c].pc = "resolved", ![c].result = id]
              /\ UNCHANGED events
       ELSE \E id \in EventIds \ DOMAIN events :
              /\ events' = (id :> req[c].doc) @@ events
              /\ req' = [req EXCEPT ![c].pc = "resolved", ![c].result = id]
              /\ UNCHANGED wasteEntries
  /\ UNCHANGED <<now, hist>>

\* a get() that may answer with the first documents only
StoreGetSome(c) ==
  /\ req[c].pc = "awaitGet"
  /\ \E k \in 0..Cardinality(DOMAIN wasteEntries) :
       req' = [req EXCEPT ![c].pc = "resolved",
                          ![c].result =
                            IF ColOf(req[c].op) = "wasteEntries"
                              THEN SubSeq(SnapshotDocs(wasteEntries), 1, k)
                              ELSE SnapshotDocs(events)]
  /\ UNCHANGED <<wasteEntries, events, now, hist>>

\* get() answers with the documents the collection holds at that moment
StoreGet(c) ==
  /\ req[c].pc = "awaitGet"
  /\ req' = [req EXCEPT ![c].pc = "resolved",
                        ![c].result =
                          IF ColOf(req[c].op) = "wasteEntries"
                            THEN SnapshotDocs(wasteEntries)
                            ELSE SnapshotDocs(events)]
  /\ UNCHANGED <<wasteEntries, events, now, hist>>

\* the store call fails: the promise rejects and nothing is written
StoreFail(c) ==
  /\ req[c].pc \in {"awaitAdd", "awaitGet"}
  /\ req' = [req EXCEPT ![c].pc = "rejected", ![c].result = UnavailableMessage]
  /\ UNCHANGED <<wasteEntries, events, now, hist>>

\* the client takes the response; the connection is free for the next request
Deliver(c) ==
  /\ req[c].pc = "done"
  /\ req' = [req EXCEPT ![c] = Idle]
  /\ UNCHANGED <<wasteEntries, events, now, hist>>

\* time passes
Tick ==
  /\ now + 1 \in Clock
  /\ now' = now + 1
  /\ UNCHANGED <<wasteEntries, events, req, hist, front>>

(***************************************************************************)
(* The React frontend (src/frontend/src/App.jsx).  The pages are rendered  *)
(* for a signed-in user only (App.jsx:92-94).  alert() and console.log()   *)
(* leave no state behind and are not modelled.                             *)
(***************************************************************************)
\* the accounts that sign in; a Firebase user without an email has email null
AppUsers == {[present |-> TRUE, uid |-> "u1", email |-> Null]}

\* what the user has typed into the forms (the inputs are required)
FormWasteBody ==
  [type |-> "Mixed", volume |-> "5 bags", location |-> "Zapote",
   user |-> [present |-> TRUE, uid |-> user.uid, email |-> user.email]]

\* nothing of the frontend waits for an answer
FrontQuiet ==
  /\ ~wasteForm.isSubmitting
  /\ ~eventForm.isSubmitting
  /\ \A e \in EventIds : ~cards[e].isJoining

\* onAuthStateChanged: a user has signed in
SignIn(u) ==
  /\ ~user.present
  /\ user' = u
  /\ UNCHANGED <<wasteEntries, events, now, req, hist, wasteForm, eventForm, cards, dash>>

\* onAuthStateChanged: the user has signed out; the pages are unmounted
SignOut ==
  /\ user.present
  /\ FrontQuiet
  /\ user' = NoUser
  /\ wasteForm' = WasteFormInit
  /\ eventForm' = EventFormInit
  /\ cards' = [e \in EventIds |-> CardInit]
  /\ dash' = DashInit
  /\ UNCHANGED <<wasteEntries, events, now, req, hist>>

\* SubmitWasteForm.handleSubmit up to its await: the POST reaches the backend
SubmitWaste(c) ==
  /\ user.present
  /\ ~wasteForm.isSubmitting
  /\ wasteForm' = [isSubmitting |-> TRUE, conn |-> c]
  /\ PostWasteStart(c, FormWasteBody)
  /\ UNCHANGED <<user, eventForm, cards, dash>>

\* SubmitWasteForm.handleSubmit up to its await: the backend cannot be reached
SubmitWasteUnreachable ==
  /\ user.present
  /\ ~wasteForm.isSubmitting
  /\ wasteForm' = [isSubmitting |-> TRUE, conn |-> "lost"]
  /\ UNCHANGED <<wasteEntries, events, now, req, hist, user, eventForm, cards, dash>>

\* the connection of the fetch breaks; the backend goes on with the request
FetchFails ==
  /\ wasteForm.isSubmitting
  /\ wasteForm.conn \in Callers
  /\ wasteForm' = [wasteForm EXCEPT !.conn = "lost"]
  /\ UNCHANGED <<wasteEntries, events, now, req, hist, user, eventForm, cards, dash>>

\* DashboardPage: fetchWasteEntries(); fetchStats(): setLoading(true) and the two requests
StartRefresh(d) ==
  [d EXCEPT !.loading = TRUE,
            !.refreshes = @ + 1,
            !.fetch = [f \in Fetches |->
                         IF f[1] = d.refreshes + 1
                           THEN [pc |-> "sent", res |-> <<>>]
                           ELSE d.fetch[f]]]

\* SubmitWasteForm.handleSubmit after its await: res.ok (and then the
\* "waste-updated" event, on which the dashboard refreshes) or not, or the
\* catch block, and in every case the finally block
SubmitWasteSettle ==
  /\ wasteForm.isSubmitting
  /\ IF wasteForm.conn \in Callers
       THEN /\ req[wasteForm.conn].pc = "done"
            /\ req' = [req EXCEPT ![wasteForm.conn] = Idle]
       ELSE /\ wasteForm.conn = "lost"
            /\ UNCHANGED req
  /\ wasteForm' = WasteFormInit
  /\ IF dash.mounted /\ wasteForm.conn \in Callers /\ req[wasteForm.conn].res.status = 200
       THEN /\ dash.refreshes < MaxRefresh
            /\ dash' = StartRefresh(dash)
       ELSE UNCHANGED dash
  /\ UNCHANGED <<wasteEntries, events, now, hist, user, eventForm, cards>>

\* the document CreateEventForm hands to addDoc; createdAt is set by the store
FormEventDoc ==
  [title |-> "Beach day",
   description |-> "Bring gloves",
   location |-> "Zapote",
   date |-> "2025-01-01",
   creatorId |-> user.uid,
   creatorEmail |-> Or(user.email, Null),
   createdAt |-> "serverTimestamp"]

\* addDoc calls of the frontend that the store has not answered yet
ClientAdding == IF eventForm.pc = "adding" THEN 1 ELSE 0

\* CreateEventForm.handleSubmit up to its await
SubmitEvent ==
  /\ user.present
  /\ ~eventForm.isSubmitting
  /\ Cardinality(DOMAIN events) + Cardinality(Adding("postEvents")) + ClientAdding < MaxEvents
  /\ eventForm' = [isSubmitting |-> TRUE, pc |-> "adding", doc |-> FormEventDoc]
  /\ UNCHANGED <<wasteEntries, events, now, req, hist, user, wasteForm, cards, dash>>

\* the store commits the addDoc of the frontend, with its own time as createdAt
ClientStoreAdd ==
  /\ eventForm.pc = "adding"
  /\ \E id \in EventIds \ DOMAIN events :
       events' = (id :> [eventForm.doc EXCEPT !.createdAt = now]) @@ events
  /\ eventForm' = [eventForm EXCEPT !.pc = "resolved"]
  /\ UNCHANGED <<wasteEntries, now, req, hist, user, wasteForm, cards, dash>>

\* the store refuses the addDoc of the frontend
ClientStoreFail ==
  /\ eventForm.pc = "adding"
  /\ eventForm' = [eventForm EXCEPT !.pc = "rejected"]
  /\ UNCHANGED <<wasteEntries, events, now, req, hist, user, wasteForm, cards, dash>>

\* a handleSubmit without its finally block: isSubmitting is reset only when
\* addDoc has succeeded
SubmitEventSettleNoFinally ==
  /\ eventForm.pc \in {"resolved", "rejected"}
  /\ eventForm' = [EventFormInit EXCEPT !.isSubmitting = (eventForm.pc = "rejected")]
  /\ UNCHANGED <<wasteEntries, events, now, req, hist, user, wasteForm, cards, dash>>

\* CreateEventForm.handleSubmit after its await: the fields are cleared, or
\* the catch block, and in both cases the finally block
SubmitEventSettle ==
  /\ eventForm.pc \in {"resolved", "rejected"}
  /\ eventForm' = EventFormInit
  /\ UNCHANGED <<wasteEntries, events, now, req, hist, user, wasteForm, cards, dash>>

\* the card of event e is on the page (the live query of EventsPage lists the
\* documents of the collection)
Shown(e) == user.present /\ e \in DOMAIN events

\* isCreator = user && user.uid === event.creatorId
IsCreator(e) == user.present /\ user.uid = events[e].creatorId

\* EventCard.handleJoin; the button is disabled while isJoining
HandleJoin(e) ==
  /\ Shown(e)
  /\ ~cards[e].isJoining
  /\ cards' = [cards EXCEPT ![e].isJoining = TRUE]
  /\ UNCHANGED <<wasteEntries, events, now, req, hist, user, wasteForm, eventForm, dash>>

\* the timeout handleJoin has set
JoinTimeout(e) ==
  /\ cards[e].isJoining
  /\ cards' = [cards EXCEPT ![e] = [isJoining |-> FALSE, showModal |-> TRUE]]
  /\ UNCHANGED <<wasteEntries, events, now, req, hist, user, wasteForm, eventForm, dash>>

\* the Close button of the modal
CloseModal(e) ==
  /\ cards[e].showModal
  /\ cards' = [cards EXCEPT ![e].showModal = FALSE]
  /\ UNCHANGED <<wasteEntries, events, now, req, hist, user, wasteForm, eventForm, dash>>

\* a handleDelete whose deleteDoc call is not commented out
HandleDeleteRemoving(e) ==
  /\ Shown(e)
  /\ IF ~IsCreator(e)
       THEN UNCHANGED vars
       ELSE /\ events' = [i \in DOMAIN events \ {e} |-> events[i]]
            /\ UNCHANGED <<wasteEntries, now, req, hist, front>>

\* EventCard.handleDelete: it returns unless isCreator, and logs otherwise
\* (the deleteDoc call is commented out)
HandleDelete(e) ==
  /\ Shown(e)
  /\ IF ~IsCreator(e) THEN UNCHANGED vars ELSE UNCHANGED vars

(***************************************************************************)
(* DashboardPage.  Its effect defines fetchWasteEntries and fetchStats,    *)
(* calls both when the page is mounted, every 10 seconds and on the        *)
(* "waste-updated" event (App.jsx:583-639).  The two fetches go to the     *)
(* deployed backend, which runs the same handlers on the same store.       *)
(***************************************************************************)
\* data.filter((entry) => entry.submitterId === user.uid)
FilterMine(data, uid) == SelectSeq(data, LAMBDA e : e.submitterId = uid)

\* a sort with the comparator (a, b) => new Date(a.createdAt) - new Date(b.createdAt)
InsertByOldest(e, sorted) ==
  LET k == Cardinality({i \in 1..Len(sorted) :
                         DateOf(sorted[i].createdAt) <= DateOf(e.createdAt)})
  IN SubSeq(sorted, 1, k) \o <<e>> \o SubSeq(sorted, k + 1, Len(sorted))

\* Array.prototype.sort is stable: e goes behind the elements of the sorted
\* list that are as new or newer
InsertByNewest(e, sorted) ==
  LET k == Cardinality({i \in 1..Len(sorted) :
                         DateOf(sorted[i].createdAt) >= DateOf(e.createdAt)})
  IN SubSeq(sorted, 1, k) \o <<e>> \o SubSeq(sorted, k + 1, Len(sorted))

\* .sort((a, b) => new Date(b.createdAt) - new Date(a.createdAt))
RECURSIVE SortByNewest(_)
SortByNewest(list) ==
  IF list = <<>> THEN <<>>
  ELSE InsertByNewest(list[Len(list)], SortByNewest(SubSeq(list, 1, Len(list) - 1)))

\* wasteEntries.slice(0, 10) of the render
ShownLimit == 10
ShownEntries(list) == SubSeq(list, 1, IF Len(list) < ShownLimit THEN Len(list) ELSE ShownLimit)

\* the user opens the dashboard: the effect runs its initial loads
Mount ==
  /\ user.present
  /\ ~dash.mounted
  /\ dash' = StartRefresh([dash EXCEPT !.mounted = TRUE])
  /\ UNCHANGED <<wasteEntries, events, now, req, hist, user, wasteForm, eventForm, cards>>

\* the callback of setInterval(..., 10000)
IntervalRefresh ==
  /\ dash.mounted
  /\ dash.refreshes < MaxRefresh
  /\ dash' = StartRefresh(dash)
  /\ UNCHANGED <<wasteEntries, events, now, req, hist, user, wasteForm, eventForm, cards>>

\* the backend answers a fetch of the dashboard from what the collection holds
FetchServe(f) ==
  /\ dash.fetch[f].pc = "sent"
  /\ dash' = [dash EXCEPT !.fetch[f] =
       [pc |-> "answered",
        res |-> IF f[2] = "entries"
                  THEN Response(200, WithId(SnapshotDocs(wasteEntries)))
                  ELSE Response(200, ComputeStats(DataOf(SnapshotDocs(wasteEntries))))]]
  /\ UNCHANGED <<wasteEntries, events, now, req, hist, user, wasteForm, eventForm, cards>>

\* the backend's get() fails: it answers 500 {error}
FetchServeFail(f) ==
  /\ dash.fetch[f].pc = "sent"
  /\ dash' = [dash EXCEPT !.fetch[f] =
       [pc |-> "answered", res |-> ServerError(UnavailableMessage)]]
  /\ UNCHANGED <<wasteEntries, events, now, req, hist, user, wasteForm, eventForm, cards>>

\* the fetch rejects: the backend cannot be reached
FetchNetworkFail(f) ==
  /\ dash.fetch[f].pc = "sent"
  /\ dash' = [dash EXCEPT !.fetch[f] = [pc |-> "failed", res |-> <<>>]]
  /\ UNCHANGED <<wasteEntries, events, now, req, hist, user, wasteForm, eventForm, cards>>

\* fetchWasteEntries after its awaits: a 500 body is no array, data.filter
\* throws and the catch block leaves the list as it was; finally
\* setLoading(false).  fetchStats after its awaits: setStats(data), whatever
\* the status of the answer
FetchApply(f) ==
  /\ dash.fetch[f].pc \in {"answered", "failed"}
  /\ LET a == dash.fetch[f]
         d == [dash EXCEPT !.fetch[f].pc = "applied"]
     IN dash' =
          IF f[2] = "entries"
            THEN IF a.pc = "answered" /\ a.res.status = 200
                   THEN [d EXCEPT !.wasteEntries = SortByNewest(FilterMine(a.res.json, user.uid)),
                                  !.loading = FALSE]
                   ELSE [d EXCEPT !.loading = FALSE]
            ELSE IF a.pc = "answered"
                   THEN [d EXCEPT !.stats = [set |-> TRUE, json |-> a.res.json]]
                   ELSE d
  /\ UNCHANGED <<wasteEntries, events, now, req, hist, user, wasteForm, eventForm, cards>>

\* no other connection carries a request: the clients take turns
Alone(c) == \A d \in Callers \ {c} : req[d].pc = "idle"

\* bodies of the requests sent while others are in flight
ConcUsers ==
  { NoUser,
    [present |-> TRUE, uid |-> "u1", email |-> Undefined],
    [present |-> TRUE, uid |-> "u2", email |-> "b@x"] }
ConcWasteBodies == [type : {"Plastic"}, volume : Volumes, location : Locations, user : ConcUsers]
ConcEventBodies ==
  [title : Titles, description : Descriptions, location : Locations,
   date : Dates, user : ConcUsers]

\* the clients send one request at a time, with any body
Next ==
  \/ \E c \in Callers, b \in WasteBodies : Alone(c) /\ PostWasteStart(c, b) /\ UNCHANGED front
  \/ \E c \in Callers : PostWasteFinish(c) /\ UNCHANGED front
  \/ \E c \in Callers : Alone(c) /\ GetWasteStart(c) /\ UNCHANGED front
  \/ \E c \in Callers : GetWasteFinish(c) /\ UNCHANGED front
  \/ \E c \in Callers, b \in EventBodies : Alone(c) /\ PostEventsStart(c, b) /\ UNCHANGED front
  \/ \E c \in Callers : PostEventsFinish(c) /\ UNCHANGED front
  \/ \E c \in Callers : Alone(c) /\ GetEventsStart(c) /\ UNCHANGED front
  \/ \E c \in Callers : GetEventsFinish(c) /\ UNCHANGED front
  \/ \E c \in Callers : Alone(c) /\ GetStatsStart(c) /\ UNCHANGED front
  \/ \E c \in Callers : GetStatsFinish(c) /\ UNCHANGED front
  \/ \E c \in Callers : Alone(c) /\ GetRoot(c) /\ UNCHANGED front
  \/ \E c \in Callers : StoreAdd(c) /\ UNCHANGED front
  \/ \E c \in Callers : StoreGet(c) /\ UNCHANGED front
  \/ \E c \in Callers : StoreFail(c) /\ UNCHANGED front
  \/ \E c \in Callers : Deliver(c) /\ UNCHANGED front

Spec == Init /\ [][Next]_vars

\* the clients send requests at any time, on every free connection
NextConc ==
  \/ \E c \in Callers, b \in ConcWasteBodies : PostWasteStart(c, b) /\ UNCHANGED front
  \/ \E c \in Callers : PostWasteFinish(c) /\ UNCHANGED front
  \/ \E c \in Callers : GetWasteStart(c) /\ UNCHANGED front
  \/ \E c \in Callers : GetWasteFinish(c) /\ UNCHANGED front
  \/ \E c \in Callers, b \in ConcEventBodies : PostEventsStart(c, b) /\ UNCHANGED front
  \/ \E c \in Callers : PostEventsFinish(c) /\ UNCHANGED front
  \/ \E c \in Callers : GetEventsStart(c) /\ UNCHANGED front
  \/ \E c \in Callers : GetEventsFinish(c) /\ UNCHANGED front
  \/ \E c \in Callers : GetStatsStart(c) /\ UNCHANGED front
  \/ \E c \in Callers : GetStatsFinish(c) /\ UNCHANGED front
  \/ \E c \in Callers : GetRoot(c) /\ UNCHANGED front
  \/ \E c \in Callers : StoreAdd(c) /\ UNCHANGED front
  \/ \E c \in Callers : StoreGet(c) /\ UNCHANGED front
  \/ \E c \in Callers : StoreFail(c) /\ UNCHANGED front
  \/ \E c \in Callers : Deliver(c) /\ UNCHANGED front

SpecConc == Init /\ [][NextConc]_vars

\* bodies of the requests the other clients send next to the frontend
OtherWasteBodies == {b \in ConcWasteBodies : b.user.uid # "u1"}
OtherEventBodies == {b \in ConcEventBodies : b.user.uid # "u1"}

\* something is under way: a request, a submission or a join
Busy ==
  \/ \E c \in Callers : req[c].pc # "idle"
  \/ wasteForm.isSubmitting
  \/ eventForm.isSubmitting
  \/ \E e \in EventIds : cards[e].isJoining

\* the answer on connection c belongs to another client than the waste form
Foreign(c) == wasteForm.conn # c

\* the frontend and the backend, next to other clients of the backend; the
\* user and the other clients start one thing at a time
NextApp ==
  \/ \E c \in Callers, b \in OtherWasteBodies : ~Busy /\ PostWasteStart(c, b) /\ UNCHANGED front
  \/ \E c \in Callers : PostWasteFinish(c) /\ UNCHANGED front
  \/ \E c \in Callers : ~Busy /\ GetWasteStart(c) /\ UNCHANGED front
  \/ \E c \in Callers : GetWasteFinish(c) /\ UNCHANGED front
  \/ \E c \in Callers, b \in OtherEventBodies : ~Busy /\ PostEventsStart(c, b) /\ UNCHANGED front
  \/ \E c \in Callers : PostEventsFinish(c) /\ UNCHANGED front
  \/ \E c \in Callers : ~Busy /\ GetEventsStart(c) /\ UNCHANGED front
  \/ \E c \in Callers : GetEventsFinish(c) /\ UNCHANGED front
  \/ \E c \in Callers : ~Busy /\ GetStatsStart(c) /\ UNCHANGED front
  \/ \E c \in Callers : GetStatsFinish(c) /\ UNCHANGED front
  \/ \E c \in Callers : ~Busy /\ GetRoot(c) /\ UNCHANGED front
  \/ \E c \in Callers : StoreAdd(c) /\ UNCHANGED front
  \/ \E c \in Callers : StoreGet(c) /\ UNCHANGED front
  \/ \E c \in Callers : StoreFail(c) /\ UNCHANGED front
  \/ \E c \in Callers : Foreign(c) /\ Deliver(c) /\ UNCHANGED front
  \/ \E u \in AppUsers : SignIn(u)
  \/ SignOut
  \/ \E c \in Callers : ~Busy /\ SubmitWaste(c)
  \/ ~Busy /\ SubmitWasteUnreachable
  \/ FetchFails
  \/ SubmitWasteSettle
  \/ ~Busy /\ SubmitEvent
  \/ ClientStoreAdd
  \/ ClientStoreFail
  \/ SubmitEventSettle
  \/ \E e \in EventIds : ~Busy /\ HandleJoin(e)
  \/ \E e \in EventIds : JoinTimeout(e)
  \/ \E e \in EventIds : CloseModal(e)
  \/ \E e \in EventIds : HandleDelete(e)
  \/ Tick

SpecApp == Init /\ [][NextApp]_vars

\* number of entries in the collections the dashboard is opened on
MaxFetched == 12
\* number of those entries that are not the user's entry of time 0
MaxOdd == 2

\* an entry POST /api/waste stored at time t for the submitter uid
StoredEntry(uid, t) ==
  [type |-> "Plastic", volume |-> "5 bags", location |-> "Zapote",
   submitterId |-> uid, submitterEmail |-> Null, createdAt |-> ToISOString(t)]

\* collections of up to MaxFetched entries of the user, stored at time 0, but
\* for up to MaxOdd that are newer or another submitter's
OddEntries == {StoredEntry("u1", 1), StoredEntry("u2", 0)}
Preloaded ==
  UNION {UNION {{[i \in 1..n |-> IF i \in S THEN k[i] ELSE StoredEntry("u1", 0)] :
                   k \in [S -> OddEntries]} :
                S \in {T \in SUBSET (1..n) : Cardinality(T) <= MaxOdd}} :
         n \in 0..MaxFetched}

\* a signed-in user in front of a backend whose collection holds entries
InitList ==
  /\ wasteEntries \in Preloaded
  /\ events = EmptyCol
  /\ now = 0
  /\ req = [c \in Callers |-> Idle]
  /\ okWasteBy = <<>>
  /\ okEvents = 0
  /\ issued = [wasteEntries |-> <<>>, events |-> <<>>]
  /\ user \in AppUsers
  /\ wasteForm = WasteFormInit
  /\ eventForm = EventFormInit
  /\ cards = [e \in EventIds |-> CardInit]
  /\ dash = DashInit

\* the user opens the dashboard and its first loads run
NextList ==
  \/ Mount
  \/ \E f \in Fetches : FetchServe(f)
  \/ \E f \in Fetches : FetchServeFail(f)
  \/ \E f \in Fetches : FetchNetworkFail(f)
  \/ \E f \in Fetches : FetchApply(f)

SpecList == InitList /\ [][NextList]_vars

\* the user on the dashboard: it refreshes on its own and after every entry
\* the user submits with its form
NextDash ==
  \/ \E u \in AppUsers : SignIn(u)
  \/ Mount
  \/ IntervalRefresh
  \/ \E c \in Callers : dash.mounted /\ Alone(c) /\ SubmitWaste(c)
  \/ \E c \in Callers : StoreAdd(c) /\ UNCHANGED front
  \/ \E c \in Callers : StoreFail(c) /\ UNCHANGED front
  \/ \E c \in Callers : PostWasteFinish(c) /\ UNCHANGED front
  \/ SubmitWasteSettle
  \/ \E f \in Fetches : FetchServe(f)
  \/ \E f \in Fetches : FetchServeFail(f)
  \/ \E f \in Fetches : FetchNetworkFail(f)
  \/ \E f \in Fetches : FetchApply(f)

SpecDash == Init /\ [][NextDash]_vars

\* the user and the two forms; the backend serves the waste form
NextForms ==
  \/ \E u \in AppUsers : SignIn(u)
  \/ SignOut
  \/ \E c \in Callers : SubmitWaste(c)
  \/ SubmitWasteUnreachable
  \/ FetchFails
  \/ \E c \in Callers : StoreAdd(c) /\ UNCHANGED front
  \/ \E c \in Callers : StoreFail(c) /\ UNCHANGED front
  \/ \E c \in Callers : PostWasteFinish(c) /\ UNCHANGED front
  \/ SubmitWasteSettle
  \/ SubmitEvent
  \/ ClientStoreAdd
  \/ ClientStoreFail
  \/ SubmitEventSettle
  \/ \E c \in Callers : Foreign(c) /\ Deliver(c) /\ UNCHANGED front

\* every awaited call settles (the store answers add() and addDoc with a
\* commit or a failure) and the continuation of every settled await runs
FairForms ==
  /\ \A c \in Callers : WF_vars((StoreAdd(c) \/ StoreFail(c)) /\ UNCHANGED front)
  /\ \A c \in Callers : WF_vars(PostWasteFinish(c) /\ UNCHANGED front)
  /\ WF_vars(SubmitWasteSettle)
  /\ WF_vars(ClientStoreAdd \/ ClientStoreFail)
  /\ WF_vars(SubmitEventSettle)

SpecForms == Init /\ [][NextForms]_vars /\ FairForms

(***************************************************************************)
(* Properties.                                                             *)
(***************************************************************************)
\* what a request body says, read off the body itself
NoUid(b) == ~b.user.present \/ b.user.uid \in {Undefined, ""}

\* what GET /api/waste and GET /api/events would answer now, as sets
ToSet(seq) == {seq[i] : i \in 1..Len(seq)}
ListedWaste == ToSet(WithId(SnapshotDocs(wasteEntries)))
ListedEvents == ToSet(WithId(SnapshotDocs(events)))

\* what GET /api/stats would answer now
StatsNow == ComputeStats(DataOf(SnapshotDocs(wasteEntries)))

\* the 200 answers of GET /api/stats that wait for their client
StatsAnswers ==
  {req[c].res.json : c \in {d \in Callers : /\ req[d].pc = "done"
                                             /\ req[d].op = "getStats"
                                             /\ req[d].res.status = 200}}

RECURSIVE SumOver(_, _)
SumOver(m, keys) ==
  IF keys = {} THEN 0
  ELSE LET k == CHOOSE x \in keys : TRUE IN m[k] + SumOver(m, keys \ {k})

\* sum(m.values())
SumOf(m) == SumOver(m, DOMAIN m)

\* a POST /api/waste call has started and has not been answered yet
CreateWasteInFlight ==
  \E c \in Callers : req[c].op = "postWaste" /\ req[c].pc \in {"awaitAdd", "resolved", "rejected"}
CreateEventInFlight ==
  \E c \in Callers : req[c].op = "postEvents" /\ req[c].pc \in {"awaitAdd", "resolved", "rejected"}

\* C1: a POST /api/waste or POST /api/events whose body has no user.uid (user
\* absent, or uid absent or empty) is answered 401 at once, without a call of
\* the store, and leaves wasteEntries and events as they were.
C1_UnauthorizedNoWrite ==
  [][\A c \in Callers :
       (/\ req[c].pc = "idle"
        /\ req'[c].op \in {"postWaste", "postEvents"}
        /\ NoUid(req'[c].body))
       => /\ req'[c].pc = "done"
          /\ req'[c].res.status = 401
          /\ req'[c].res.json = [error |-> "Unauthorized"]
          /\ req'[c].calls = 0
          /\ wasteEntries' = wasteEntries
          /\ events' = events]_vars

\* an unauthorized POST of each kind is answered while the collections hold documents
C1_Witness ==
  /\ DOMAIN wasteEntries # {}
  /\ \E c \in Callers :
       /\ req[c].pc = "done"
       /\ req[c].op \in {"postWaste", "postEvents"}
       /\ req[c].body.user.present
       /\ req[c].res.status = 401

\* the listed entry is the one the body b asked for
Matches(e, b) ==
  /\ e.type = b.type
  /\ e.volume = b.volume
  /\ e.location = b.location
  /\ e.submitterId = b.user.uid

\* C2: a createWasteEntry call with a present user.uid that succeeds adds
\* exactly one entry to what listWasteEntries returns: the entries listed
\* before are all still listed, and the one new entry carries the submitted
\* type, volume and location and the submitter's uid; the 200 answer names it.
C2_CreateAddsExactlyOne ==
  [][\A c \in Callers :
       /\ (/\ req[c].op = "postWaste"
           /\ req[c].pc = "awaitAdd"
           /\ req'[c].pc = "resolved")
          => \E e \in ListedWaste' :
               /\ e \notin ListedWaste
               /\ ListedWaste' \ {e} = ListedWaste
               /\ e.id = req'[c].result
               /\ Matches(e, req[c].body)
       /\ (/\ req[c].op = "postWaste"
           /\ req[c].pc # "done"
           /\ req'[c].pc = "done"
           /\ req'[c].res.status = 200)
          => /\ req[c].pc = "resolved"
             /\ ListedWaste' = ListedWaste
             /\ \E e \in ListedWaste' :
                  /\ e.id = req'[c].res.json.id
                  /\ Matches(e, req[c].body)
             /\ Cardinality({e \in ListedWaste' : e.id = req'[c].res.json.id}) = 1]_vars

\* a second entry has been created and answered 200
C2_Witness ==
  /\ Cardinality(ListedWaste) = 2
  /\ \E c \in Callers :
       /\ req[c].pc = "done"
       /\ req[c].op = "postWaste"
       /\ req[c].res.status = 200

\* the three aggregates of a summary agree
SumsAgree(s) ==
  /\ SumOf(s.totalsByType) = s.totalEntries
  /\ s.totalEntries = SumOf(s.totalsByUser)

\* C3 as claimed: for every state of the wasteEntries collection, the summary
\* computeStats returns has sum(totalsByType) = totalEntries =
\* sum(totalsByUser); so has every summary a GET /api/stats has answered.
C3_StatsSumsAgree ==
  /\ SumsAgree(StatsNow)
  /\ \A s \in StatsAnswers : SumsAgree(s)

\* C4: when exactly N createWasteEntry calls have succeeded (whatever other
\* calls, unauthorized or failed creations, createEvent calls and reads, came
\* in between) computeStats returns totalEntries = N; for N = 0 both
\* totalsByType and totalsByUser are empty.
C4_TotalIsSuccessCount ==
  ~CreateWasteInFlight =>
    LET N == SumOf(okWasteBy)
    IN \A s \in {StatsNow} \cup StatsAnswers :
         /\ s.totalEntries = N
         /\ (N = 0 => DOMAIN s.totalsByType = {} /\ DOMAIN s.totalsByUser = {})

\* two creations succeeded, an event was created, and a summary was answered
C4_Witness ==
  /\ SumOf(okWasteBy) = 2
  /\ okEvents = 1
  /\ StatsAnswers # {}

\* the type values the stored entries carry, and how many entries carry each
StoredTypes == {wasteEntries[i].type : i \in DOMAIN wasteEntries}
CountType(t) == Cardinality({i \in DOMAIN wasteEntries : wasteEntries[i].type = t})

\* C5 as claimed: the keys of totalsByType are the stored type strings, the
\* empty string included, each with the number of entries stored under it.
C5_KeysAreStoredTypes ==
  /\ DOMAIN StatsNow.totalsByType = StoredTypes
  /\ \A t \in StoredTypes : StatsNow.totalsByType[t] = CountType(t)

\* C6 as claimed: once the createWasteEntry calls are answered, the keys of
\* totalsByUser are the uids of the calls that succeeded, each with the number
\* of calls that succeeded under it; no other key has a count.
C6_UsersAreSubmitters ==
  ~CreateWasteInFlight =>
    \A s \in {StatsNow} \cup StatsAnswers :
      /\ DOMAIN s.totalsByUser = DOMAIN okWasteBy
      /\ \A u \in DOMAIN okWasteBy : s.totalsByUser[u] = okWasteBy[u]

\* C7 as claimed: a POST /api/waste with a present user.uid and no type field,
\* for which the store did not fail, is accepted (answered 200) and its entry
\* is stored and counted under "Unknown".
C7_MissingTypeAccepted ==
  \A c \in Callers :
    (/\ req[c].pc = "done"
     /\ req[c].op = "postWaste"
     /\ ~NoUid(req[c].body)
     /\ req[c].body.type = Undefined
     /\ req[c].res.json # [error |-> UnavailableMessage])
    => /\ req[c].res.status = 200
       /\ "Unknown" \in DOMAIN StatsNow.totalsByType

\* C8: wasteEntries is append-only under every step of the backend and of
\* the frontend: a stored entry stays in the collection, under the same id
\* and with the same field values.
C8_WasteAppendOnly ==
  [][\A i \in DOMAIN wasteEntries :
       /\ i \in DOMAIN wasteEntries'
       /\ wasteEntries'[i] = wasteEntries[i]]_vars

\* two entries are stored, one of them sent by the waste form, an event
\* exists and the user has joined it
C8_Witness ==
  /\ Cardinality(DOMAIN wasteEntries) = 2
  /\ \E i \in DOMAIN wasteEntries : wasteEntries[i].type = "Mixed"
  /\ \E e \in DOMAIN events : cards[e].showModal

\* C9: when a store call fails, the handler does not call the store again:
\* its next step answers that request with 500 and a JSON body {error}; the
\* failure and the answer leave both collections and every other request as
\* they were; every 500 answer comes after at most one store call.
C9_StoreFailureIsolated ==
  [][\A c \in Callers :
       /\ (req[c].pc \in {"awaitAdd", "awaitGet"} /\ req'[c].pc = "rejected")
          => /\ wasteEntries' = wasteEntries
             /\ events' = events
             /\ \A d \in Callers \ {c} : req'[d] = req[d]
       /\ (req[c].pc = "rejected" /\ req'[c] # req[c])
          => /\ req'[c].pc = "done"
             /\ req'[c].res.status = 500
             /\ DOMAIN req'[c].res.json = {"error"}
             /\ req'[c].calls = 1
             /\ wasteEntries' = wasteEntries
             /\ events' = events
             /\ \A d \in Callers \ {c} : req'[d] = req[d]
       /\ (req[c].pc # "done" /\ req'[c].pc = "done" /\ req'[c].res.status = 500)
          => /\ DOMAIN req'[c].res.json = {"error"}
             /\ req'[c].calls = 1
             /\ wasteEntries' = wasteEntries
             /\ events' = events]_vars

\* a read is answered 500 after a store failure while a creation on the other
\* connection is answered 200
C9_Witness ==
  \E c, d \in Callers :
    /\ req[c].pc = "done" /\ req[c].op = "getStats"
    /\ req[c].res = ServerError(UnavailableMessage)
    /\ req[d].pc = "done" /\ req[d].op = "postWaste"
    /\ req[d].res.status = 200

\* the document d carries the fields of the request q that created it
OwnFields(d, q) ==
  IF q.op = "postWaste"
    THEN /\ d.type = q.body.type
         /\ d.volume = q.body.volume
         /\ d.location = q.body.location
         /\ d.submitterId = q.body.user.uid
    ELSE /\ d.title = q.body.title
         /\ d.description = q.body.description
         /\ d.location = q.body.location
         /\ d.date = q.body.date
         /\ d.creatorId = q.body.user.uid

\* col2 is col1 plus one document, under the new id i, made from request q
OneMore(col1, col2, i, q) ==
  /\ i \notin DOMAIN col1
  /\ DOMAIN col2 = DOMAIN col1 \cup {i}
  /\ \A j \in DOMAIN col1 : col2[j] = col1[j]
  /\ OwnFields(col2[i], q)

\* C10: however the steps of concurrent createWasteEntry and createEvent calls
\* interleave, every commit adds one document with the fields of its own
\* request and touches no other document, and once the calls are answered the
\* two collections hold one document per successful call.
C10_NoLostWrite ==
  /\ [](~CreateWasteInFlight /\ ~CreateEventInFlight
        => /\ Cardinality(DOMAIN wasteEntries) = SumOf(okWasteBy)
           /\ Cardinality(DOMAIN events) = okEvents)
  /\ [][\A c \in Callers :
          (req[c].pc = "awaitAdd" /\ req'[c].pc = "resolved")
          => IF req[c].op = "postWaste"
               THEN /\ OneMore(wasteEntries, wasteEntries', req'[c].result, req[c])
                    /\ events' = events
               ELSE /\ OneMore(events, events', req'[c].result, req[c])
                    /\ wasteEntries' = wasteEntries]_vars

\* two creations by different users were in flight together and both are committed
C10_Witness ==
  /\ req["c1"].pc = "resolved" /\ req["c1"].op = "postWaste"
  /\ req["c2"].pc = "resolved" /\ req["c2"].op \in {"postWaste", "postEvents"}
  /\ req["c1"].body.user.uid # req["c2"].body.user.uid

\* the summary q answered counts no fewer entries than were committed when its
\* request started and no more than are committed now
StatsInWindow(q) ==
  /\ q.before <= q.res.json.totalEntries
  /\ q.res.json.totalEntries <= Cardinality(DOMAIN wasteEntries)

\* C11 as claimed: a summary answered by GET /api/stats, whatever writes were
\* committed while the request ran, counts at least the entries committed
\* before the request started and at most those committed when it responds,
\* and the sums of its totalsByType and totalsByUser equal its totalEntries.
C11_StatsOfOneMoment ==
  \A c \in Callers :
    (req[c].pc = "done" /\ req[c].op = "getStats" /\ req[c].res.status = 200)
    => /\ StatsInWindow(req[c])
       /\ SumsAgree(req[c].res.json)

\* the read routes
Reads == {"getWaste", "getEvents", "getStats", "getRoot"}

\* the request on connection c is a read of wasteEntries answered 200, and no
\* entry was committed since it started
AnsweredUnwritten(c, op) ==
  /\ req[c].pc = "done"
  /\ req[c].op = op
  /\ req[c].res.status = 200
  /\ req[c].before = Cardinality(DOMAIN wasteEntries)

\* C12: two listWasteEntries calls, or two computeStats calls, with no
\* successful write between them are answered with equal results.
C12_ReadsRepeat ==
  \A c, d \in Callers : \A op \in {"getWaste", "getStats"} :
    (AnsweredUnwritten(c, op) /\ AnsweredUnwritten(d, op))
    => req[c].res.json = req[d].res.json

\* two listings and, in another state, two summaries of a collection of two
\* entries wait for their clients
C12_Witness ==
  /\ Cardinality(DOMAIN wasteEntries) = 2
  /\ \E op \in {"getWaste", "getStats"} :
       /\ AnsweredUnwritten("c1", op)
       /\ AnsweredUnwritten("c2", op)

\* C13: a step of a read request (GET /api/waste, GET /api/events,
\* GET /api/stats, GET /), whether the read succeeds or fails, leaves
\* wasteEntries and events as they were.
C13_ReadsWriteNothing ==
  [][\A c \in Callers :
       (req'[c] # req[c] /\ (req[c].op \in Reads \/ req'[c].op \in Reads))
       => /\ wasteEntries' = wasteEntries
          /\ events' = events]_vars

\* with documents in both collections, one read has failed and another has
\* been answered 200
C13_Witness ==
  /\ DOMAIN wasteEntries # {}
  /\ DOMAIN events # {}
  /\ \E c, d \in Callers :
       /\ req[c].pc = "done" /\ req[c].op \in Reads /\ req[c].res.status = 500
       /\ req[d].pc = "done" /\ req[d].op \in Reads /\ req[d].res.status = 200

\* C14: no identifier is named by two 200 answers of POST /api/waste, nor by
\* two of POST /api/events, and the documents a collection lists have pairwise
\* distinct identifiers.
C14_IdsDistinct ==
  /\ \A i \in DOMAIN issued.wasteEntries : issued.wasteEntries[i] = 1
  /\ \A i \in DOMAIN issued.events : issued.events[i] = 1
  /\ \A col \in {wasteEntries, events} :
       LET docs == SnapshotDocs(col)
       IN \A i, j \in 1..Len(docs) : docs[i].id = docs[j].id => i = j

\* two waste entries and an event have been created and their ids answered
C14_Witness ==
  /\ Cardinality(DOMAIN issued.wasteEntries) = 2
  /\ Cardinality(DOMAIN issued.events) = 1

\* an email was given
Given(email) == email \notin {Undefined, Null, ""}

\* C15: every stored waste entry has a present, non-empty submitterId; the
\* entry a POST /api/waste commits carries the user.uid of its request as
\* submitterId and, as submitterEmail, the request's user.email when one was
\* given and null otherwise.
C15_SubmitterRecorded ==
  /\ [](\A i \in DOMAIN wasteEntries :
          wasteEntries[i].submitterId \notin {Undefined, Null, ""})
  /\ [][\A c \in Callers :
          (req[c].op = "postWaste" /\ req[c].pc = "awaitAdd" /\ req'[c].pc = "resolved")
          => LET e == wasteEntries'[req'[c].result]
                 u == req[c].body.user
             IN /\ e.submitterId = u.uid
                /\ e.submitterEmail = IF Given(u.email) THEN u.email ELSE Null]_vars

\* an entry of a submitter with an email and one of a submitter who gave an
\* empty email are stored
C15_Witness ==
  /\ \E i \in DOMAIN wasteEntries : wasteEntries[i].submitterEmail = "a@x"
  /\ \E i \in DOMAIN wasteEntries :
       wasteEntries[i].submitterId = "__proto__" /\ wasteEntries[i].submitterEmail = Null

\* the fetch f of the entries was answered 200 and its answer is applied
AppliedList(f) ==
  /\ f[2] = "entries"
  /\ dash.fetch[f].pc = "applied"
  /\ dash.fetch[f].res # <<>>
  /\ dash.fetch[f].res.status = 200

\* C16: once fetchWasteEntries has applied a 200 answer, the dashboard's list
\* holds exactly the fetched entries whose submitterId is the user's uid, each
\* once, ordered by createdAt from newest to oldest, and the page shows its
\* first 10 entries at most.
C16_DashboardList ==
  \A f \in Fetches :
    AppliedList(f) =>
      LET data == dash.fetch[f].res.json
          list == dash.wasteEntries
          shown == ShownEntries(list)
          mine == {i \in 1..Len(data) : data[i].submitterId = user.uid}
      IN /\ ToSet(list) = {data[i] : i \in mine}
         /\ Len(list) = Cardinality(mine)
         /\ \A i, j \in 1..Len(list) :
              i < j => DateOf(list[i].createdAt) >= DateOf(list[j].createdAt)
         /\ Len(shown) <= 10
         /\ Len(shown) = Len(list) \/ Len(shown) = 10
         /\ \A i \in 1..Len(shown) : shown[i] = list[i]

\* the fetched collection holds another submitter's entry and 11 of the user,
\* one of them newer and not fetched first
C16_Witness ==
  \E f \in Fetches :
    /\ AppliedList(f)
    /\ Len(dash.fetch[f].res.json) = 12
    /\ Len(dash.wasteEntries) = 11
    /\ Len(ShownEntries(dash.wasteEntries)) = 10
    /\ dash.fetch[f].res.json[1].createdAt = ToISOString(0)
    /\ dash.wasteEntries[1].createdAt = ToISOString(1)

\* the step commits a createEvent: the add() of POST /api/events or the addDoc
\* of the event form
CommitsEvent ==
  \/ \E c \in Callers :
       req[c].op = "postEvents" /\ req[c].pc = "awaitAdd" /\ req'[c].pc = "resolved"
  \/ eventForm.pc = "adding" /\ eventForm'.pc = "resolved"

\* C17: handleJoin and handleDelete, by the creator or by anyone else, leave
\* the events collection as it was: a step that changes a card changes no
\* collection, an event once stored stays as it is, and events changes only
\* when a creation commits.
C17_JoinDeleteNotPersisted ==
  [][/\ cards' # cards => (events' = events /\ wasteEntries' = wasteEntries)
     /\ \A e \in DOMAIN events : e \in DOMAIN events' /\ events'[e] = events[e]
     /\ events' # events => CommitsEvent]_vars

\* the creator of an event looks at its card, with the Delete button, and
\* has joined it
C17_Witness ==
  \E e \in DOMAIN events :
    /\ Shown(e)
    /\ IsCreator(e)
    /\ cards[e].showModal
    /\ ~cards[e].isJoining

\* the two fetches of the given kind were both answered 200 and both answers
\* are applied; the second was sent after the first
BothApplied(kind) ==
  \A r \in {1, 2} :
    /\ dash.fetch[<<r, kind>>].pc = "applied"
    /\ dash.fetch[<<r, kind>>].res # <<>>
    /\ dash.fetch[<<r, kind>>].res.status = 200

\* C18 as claimed: once the answers of two overlapping refreshes are both
\* applied, the dashboard shows the entries and the summary of the request
\* sent later; the answer of the earlier request does not replace them, so
\* the totalEntries shown is not below the one the later answer carried.
C18_LaterRefreshWins ==
  /\ BothApplied("stats")
     => /\ dash.stats.json = dash.fetch[<<2, "stats">>].res.json
        /\ dash.stats.json.totalEntries >= dash.fetch[<<1, "stats">>].res.json.totalEntries
  /\ BothApplied("entries")
     => dash.wasteEntries =
          SortByNewest(FilterMine(dash.fetch[<<2, "entries">>].res.json, user.uid))

====
